---- MODULE Spec2Model ----
(***************************************************************************)
(* Model of the PDF RAG chatbot: the chat answer router and the FAISS     *)
(* passage index of rag.py, and the Streamlit session script of app.py.   *)
(*                                                                         *)
(* Text is modelled by TLA+ strings, on which Len, SubSeq and \o act as   *)
(* they do on Python str.  Non-ASCII characters of the source are written *)
(* with ASCII stand-ins: the euro sign as "^", the pound sign as "&", the *)
(* dashes of the fixed messages as "-", the curly apostrophe as "'".      *)
(* Optional[str] is modelled as a sequence: <<>> is None, <<s>> is s.     *)
(***************************************************************************)
EXTENDS Integers, Sequences, FiniteSets, TLC

VARIABLES
    \* one execution of answer_with_llm_or_extract
    pc,          \* position of the modelled call: "start" or "done"
    question,    \* argument of answer_with_llm_or_extract
    retrieved,   \* argument of answer_with_llm_or_extract: seq of RetrievedPassage
    provider,    \* os.getenv("LLM_PROVIDER", "None")
    resp,        \* what the configured oracle did when (if) it was called
    answer,      \* returned text
    used_llm,    \* returned flag
    calls,       \* network calls made during the execution, in order
    terminal,    \* which return statement was taken
    listed,      \* concepts[:10] of the direct answer, <<>> elsewhere
    \* one FaissIndex object
    index,       \* [dim, vectors, passages]: the IndexFlatIP store and self._passages
    last,        \* the last method call on the index: its name, arguments' sizes and outcome
    results,     \* what the last call returned: the list of a search, <<>> otherwise
    \* one browser session of app.py
    session_state, \* st.session_state: [chat, index, passages, finance, pdf_hash, pdf_path]
    run,           \* the last script run: what was uploaded and asked, and where it stopped
    rebuilds,      \* history: the rebuilds started so far, [doc, completed] each
    origin,        \* history: the rebuild that assigned index, passages and finance (0: none)
    chat_hash,     \* history: for each turn of the chat, pdf_hash when it was appended
    \* one call of chunk_text
    ck_pc,       \* "call", "while" (line 57), "body" (lines 58-62), "returned" or "raised"
    ck_in,       \* the arguments: [text, chunk_size, overlap]
    ck_text,     \* the local text after line 51
    ck_start,    \* the local start
    ck_chunks,   \* the local chunks, kept up to MaxChunks entries
    ck_error,    \* the message of the ValueError raised, "" when none
    \* one call of parse_finance_request
    req_pc,      \* "call" or "returned"
    user_text,   \* the argument
    intent,      \* the returned dict: [chart, group]
    \* one call of parse_financial_tables, then of aggregate_finance on its result
    fin_pc,      \* "call", "parsed" or "aggregated"
    tables,      \* the argument: a sequence of grids, each a sequence of rows of cells
    parsed,      \* the returned Optional[FinanceParseResult]
    log,         \* history: for each grid, where its loop iteration ended and what it found
    freq,        \* the freq argument of aggregate_finance
    agg          \* the frame aggregate_finance returned: a sequence of buckets

routerVars == <<pc, question, retrieved, provider, resp, answer, used_llm, calls, terminal, listed>>

indexVars == <<index, last, results>>

appVars == <<session_state, run, rebuilds, origin, chat_hash>>

chunkVars == <<ck_pc, ck_in, ck_text, ck_start, ck_chunks, ck_error>>

requestVars == <<req_pc, user_text, intent>>

financeVars == <<fin_pc, tables, parsed, log, freq, agg>>

toolVars == <<chunkVars, requestVars, financeVars>>

vars == <<routerVars, indexVars, appVars, toolVars>>

None == <<>>
Some(s) == <<s>>

(***************************************************************************)
(* Python str operations                                                   *)
(***************************************************************************)
Char(s, i) == SubSeq(s, i, i)

\* str.isspace for the characters that occur
IsSpace(c) == c \in {" ", "\n", "\t"}

\* `t in s`
Contains(s, t) == \E i \in 1..(Len(s) - Len(t) + 1) : SubSeq(s, i, i + Len(t) - 1) = t

StartsWith(s, t) == Len(t) <= Len(s) /\ SubSeq(s, 1, Len(t)) = t

EndsWith(s, t) == Len(t) <= Len(s) /\ SubSeq(s, Len(s) - Len(t) + 1, Len(s)) = t

UPPER == "ABCDEFGHIJKLMNOPQRSTUVWXYZ"

LOWER == "abcdefghijklmnopqrstuvwxyz"

UpperSet == {Char(UPPER, i) : i \in 1..Len(UPPER)}

LowerOf == [c \in UpperSet |-> Char(LOWER, CHOOSE i \in 1..Len(UPPER) : Char(UPPER, i) = c)]

LowerChar(c) == IF c \in UpperSet THEN LowerOf[c] ELSE c

RECURSIVE lower(_)
\* str.lower, halving the string so that the recursion stays shallow
lower(s) ==
    IF Len(s) = 0 THEN ""
    ELSE IF Len(s) = 1 THEN LowerChar(s)
    ELSE lower(SubSeq(s, 1, Len(s) \div 2)) \o lower(SubSeq(s, Len(s) \div 2 + 1, Len(s)))

RECURSIVE lstrip(_)
lstrip(s) == IF s # "" /\ IsSpace(Char(s, 1)) THEN lstrip(SubSeq(s, 2, Len(s))) ELSE s

RECURSIVE rstrip(_)
rstrip(s) == IF s # "" /\ IsSpace(Char(s, Len(s))) THEN rstrip(SubSeq(s, 1, Len(s) - 1)) ELSE s

\* str.strip()
strip(s) == rstrip(lstrip(s))

RECURSIVE SplitFrom(_, _, _)
\* the whitespace-delimited tokens of s from position i on, cur being the token in progress
SplitFrom(s, i, cur) ==
    IF i > Len(s) THEN (IF cur = "" THEN <<>> ELSE <<cur>>)
    ELSE IF IsSpace(Char(s, i))
         THEN (IF cur = "" THEN <<>> ELSE <<cur>>) \o SplitFrom(s, i + 1, "")
         ELSE SplitFrom(s, i + 1, cur \o Char(s, i))

\* str.split() with no separator
split(s) == SplitFrom(s, 1, "")

RECURSIVE join(_, _)
\* sep.join(parts)
join(sep, parts) ==
    IF Len(parts) = 0 THEN ""
    ELSE IF Len(parts) = 1 THEN parts[1]
    ELSE parts[1] \o sep \o join(sep, Tail(parts))

\* s[:n]
Prefix(s, n) == SubSeq(s, 1, IF n < Len(s) THEN n ELSE Len(s))

(***************************************************************************)
(* rag.py: question normalisation and the two intent heuristics            *)
(***************************************************************************)
_COMMON_CORRECTIONS ==
    [t \in {"wther", "wether", "finacial", "finanicial", "summery", "sumarize", "summarise"} |->
        CASE t = "wther" -> "whether"
          [] t = "wether" -> "whether"
          [] t = "finacial" -> "financial"
          [] t = "finanicial" -> "financial"
          [] t = "summery" -> "summary"
          [] t = "sumarize" -> "summarize"
          [] t = "summarise" -> "summarize"]

normalize_user_question(qn) ==
    LET tokens == split(strip(qn))
        fixed == [i \in 1..Len(tokens) |->
                    IF lower(tokens[i]) \in DOMAIN _COMMON_CORRECTIONS
                    THEN _COMMON_CORRECTIONS[lower(tokens[i])]
                    ELSE tokens[i]]
    IN join(" ", fixed)

summary_keywords_no_summary == <<"summarize", "summarise">>

summary_keywords == <<"summarize", "summary", "summarise">>

_wants_summary(q) ==
    LET ql == lower(q)
    IN \E i \in 1..Len(summary_keywords) : Contains(ql, summary_keywords[i])

scope_markers == <<"page", "pages", "section", "chapter", "table", "about", "focus on", "only">>

_summary_is_underspecified(q) ==
    LET ql == lower(q)
    IN IF ~_wants_summary(ql) THEN FALSE
       ELSE ~(\E i \in 1..Len(scope_markers) : Contains(ql, scope_markers[i]))

_FINANCE_TERMS ==
    << "revenue", "income", "expense", "expenses", "cost", "costs", "profit", "loss",
       "balance", "debit", "credit", "interest", "tax", "invoice", "payment",
       "transaction", "cash flow", "budget", "assets", "liabilities", "equity", "fee",
       "charge", "refund", "amount", "total", "subtotal", "account", "statement" >>

_looks_like_financial_concepts_question(q) ==
    LET ql == lower(q)
    IN \/ Contains(ql, "financial concept")
       \/ Contains(ql, "financial concepts")
       \/ (Contains(ql, "financial")
           /\ \E w \in {"concept", "concepts", "terms", "topics"} : Contains(ql, w))

IsDigit(c) == c \in {"0", "1", "2", "3", "4", "5", "6", "7", "8", "9"}

\* \w of the re module, for the characters that occur
IsWordChar(c) == IsDigit(c) \/ c = "_" \/ c \in UpperSet \/ Contains(LOWER, c)

AllDigits(s, a, b) == \A k \in a..b : IsDigit(Char(s, k))

\* \b between positions i-1 and i of s, position i holding or following a word character
BoundaryBefore(s, i) == i = 1 \/ ~IsWordChar(Char(s, i - 1))

BoundaryAfter(s, e) == e = Len(s) \/ ~IsWordChar(Char(s, e + 1))

\* first alternative of _MONEY_RE: [$^&]\s*\d
MoneySymbolAt(s, i) ==
    /\ Char(s, i) \in {"$", "^", "&"}
    /\ \E j \in (i + 1)..Len(s) :
          /\ IsDigit(Char(s, j))
          /\ \A k \in (i + 1)..(j - 1) : IsSpace(Char(s, k))

\* second alternative of _MONEY_RE: \b\d{1,3}(?:,\d{3})+(?:\.\d+)?\b
MoneyGroupsAt(s, i) ==
    /\ BoundaryBefore(s, i)
    /\ \E d \in 1..3 : \E g \in 1..(Len(s) \div 4) :
          LET e == i + d - 1 + 4 * g
          IN /\ e <= Len(s)
             /\ AllDigits(s, i, i + d - 1)
             /\ \A n \in 0..(g - 1) :
                   /\ Char(s, i + d + 4 * n) = ","
                   /\ AllDigits(s, i + d + 4 * n + 1, i + d + 4 * n + 3)
             /\ \/ BoundaryAfter(s, e)
                \/ \E m \in 1..(Len(s) - e - 1) :
                      /\ Char(s, e + 1) = "."
                      /\ AllDigits(s, e + 2, e + 1 + m)
                      /\ BoundaryAfter(s, e + 1 + m)

\* _MONEY_RE.search(s) is not None
_MONEY_RE_search(s) == \E i \in 1..Len(s) : MoneySymbolAt(s, i) \/ MoneyGroupsAt(s, i)

RECURSIVE Dedupe(_, _)
\* the loop of lines 151-156: keep the first occurrence of each element
Dedupe(xs, seen) ==
    IF xs = <<>> THEN <<>>
    ELSE IF Head(xs) \in seen THEN Dedupe(Tail(xs), seen)
    ELSE <<Head(xs)>> \o Dedupe(Tail(xs), seen \cup {Head(xs)})

_extract_financial_concepts_from_context(context_passages) ==
    LET joined == join("\n", context_passages)
        jl == lower(joined)
        terms == SelectSeq(_FINANCE_TERMS, LAMBDA t : Contains(jl, t))
        found == IF _MONEY_RE_search(joined) THEN Append(terms, "currency amounts") ELSE terms
    IN Dedupe(found, {})

(***************************************************************************)
(* rag.py: FaissIndex.  A vector is a tuple of integers, a batch (the 2-D *)
(* array of add) a sequence of vectors.  The faiss IndexFlatIP is its     *)
(* stored vectors: add appends after asserting the dimension, search      *)
(* returns k (score, idx) pairs by descending inner product, idx 0-based, *)
(* padded with idx -1 when fewer than k vectors are stored.               *)
(***************************************************************************)
MaxIndex == 2

MaxBatch == 2

MaxTopK == 3

EMBED_DIM == 2

\* L2-normalized vectors of the index's dimension
UnitVectors == {<<1, 0>>, <<0, 1>>, <<-1, 0>>}

\* vectors of another dimension
OtherVectors == {<<1>>}

PassageTexts == {"[page 1] a", "[page 2] b"}

RECURSIVE Dot(_, _)
Dot(u, v) == IF u = <<>> THEN 0 ELSE Head(u) * Head(v) + Dot(Tail(u), Tail(v))

\* FaissIndex.__init__
FaissIndex(dim) == [dim |-> dim, vectors |-> <<>>, passages |-> <<>>]

\* an add that stores whatever it is given
add_unchecked(ix, vectors, passages) ==
    [index |-> [ix EXCEPT !.vectors = @ \o vectors, !.passages = @ \o passages],
     error |-> "none"]

\* FaissIndex.add: the index after the call and the exception raised, if any
add(ix, vectors, passages) ==
    IF Len(passages) # Len(vectors)
    THEN [index |-> ix, error |-> "ValueError"]
    ELSE IF \E i \in 1..Len(vectors) : Len(vectors[i]) # ix.dim
    THEN [index |-> ix, error |-> "AssertionError"]
    ELSE [index |-> [ix EXCEPT !.vectors = @ \o vectors, !.passages = @ \o passages],
          error |-> "none"]

\* the 1-based position, by descending score then ascending position, of stored vector j
RankOf(vectors, q, j) ==
    1 + Cardinality({m \in 1..Len(vectors) :
            \/ Dot(vectors[m], q) > Dot(vectors[j], q)
            \/ Dot(vectors[m], q) = Dot(vectors[j], q) /\ m < j})

\* self._index.search(query_vector, top_k): scores[0] and idxs[0] zipped
IndexFlatIP_search(vectors, q, k) ==
    [i \in 1..k |->
        IF i <= Len(vectors)
        THEN LET j == CHOOSE m \in 1..Len(vectors) : RankOf(vectors, q, m) = i
             IN [score |-> Dot(vectors[j], q), idx |-> j - 1]
        ELSE [score |-> -1000000, idx |-> -1]]

RECURSIVE Collect_unfiltered(_, _)
\* the loop without its bounds test: a negative idx counts from the end of the list
Collect_unfiltered(passages, hits) ==
    IF hits = <<>> \/ passages = <<>> THEN <<>>
    ELSE <<[text |-> passages[IF Head(hits).idx < 0 THEN Len(passages) + Head(hits).idx + 1
                              ELSE Head(hits).idx + 1],
            score |-> Head(hits).score]>>
         \o Collect_unfiltered(passages, Tail(hits))

RECURSIVE Collect(_, _)
\* the loop of lines 52-55
Collect(passages, hits) ==
    IF hits = <<>> THEN <<>>
    ELSE IF Head(hits).idx < 0 \/ Head(hits).idx >= Len(passages)
         THEN Collect(passages, Tail(hits))
         ELSE <<[text |-> passages[Head(hits).idx + 1], score |-> Head(hits).score]>>
              \o Collect(passages, Tail(hits))

\* FaissIndex.search
search(ix, query_vector, top_k) ==
    Collect(ix.passages, IndexFlatIP_search(ix.vectors, query_vector, top_k))

Call(op, nv, np, k, q, e) == [op |-> op, nv |-> nv, np |-> np, k |-> k, q |-> q, error |-> e]

\* the index's variables when no index is modelled
IndexIdle ==
    /\ index = FaissIndex(EMBED_DIM)
    /\ last = Call("init", 0, 0, 0, <<>>, "none")
    /\ results = <<>>

Batches(S) == UNION {[1..n -> S] : n \in 0..MaxBatch}

\* index.add(vectors, passages) on any batch of vectors and any list of passages
AddStep ==
    /\ \E vectors \in Batches(UnitVectors) \cup Batches(OtherVectors) :
       \E passages \in Batches(PassageTexts) :
          /\ \E out \in {add(index, vectors, passages)} :
                /\ Len(out.index.passages) <= MaxIndex
                /\ Len(out.index.vectors) <= MaxIndex
                /\ index' = out.index
                /\ last' = Call("add", Len(vectors), Len(passages), 0, <<>>, out.error)
    /\ results' = <<>>
    /\ UNCHANGED routerVars
    /\ UNCHANGED appVars
    /\ UNCHANGED toolVars

\* index.search(query_vector, top_k)
SearchStep ==
    /\ \E q \in UnitVectors : \E k \in 1..MaxTopK :
          /\ results' = search(index, q, k)
          /\ last' = Call("search", 0, 0, k, q, "none")
    /\ UNCHANGED index
    /\ UNCHANGED routerVars
    /\ UNCHANGED appVars
    /\ UNCHANGED toolVars

(***************************************************************************)
(* The router's inputs.  A question is up to MaxWords phrases joined by   *)
(* single spaces, or one of the raw questions with irregular whitespace;  *)
(* the retrieved list is up to MaxRetrieved distinct passages of the      *)
(* pool, in any order.                                                     *)
(***************************************************************************)
MaxWords == 2

MaxRetrieved == 4

QuestionPhrases ==
    {"Summarise", "ONLY", "focus on", "Financial Concepts", "total?"}

RawQuestions ==
    {"  sumarize \t the  PDF\n", " \n", "finacial  topics?", "a summery, please", "SUMMERY of it",
     "summarize"}

Questions ==
    {join(" ", ws) : ws \in UNION {[1..k -> QuestionPhrases] : k \in 0..MaxWords}}
    \cup RawQuestions

PassagePool ==
    { [text |-> "[page 1] Invoice total: $1,200 due", score |-> 3],
      [text |-> "[page 2] Revenue, income, expenses, costs, profit, loss, balance, debit and credit.", score |-> 2],
      [text |-> "[page 3] The cat sat on mat 1234,567.", score |-> 1],
      [text |-> "[page 4] Paid 1,234.56 in cash\nflow", score |-> 0] }

RetrievedLists ==
    {r \in UNION {[1..k -> PassagePool] : k \in 0..MaxRetrieved} :
        \A i, j \in 1..Len(r) : i # j => r[i] # r[j]}

Providers == {"None", "Gemini", "OpenAI", "Ollama", ""}

Resp(k, t, st, e) == [kind |-> k, text |-> t, status |-> st, err |-> e]

OracleTexts == {"", " \n", " It is 42.\n"}

\* what the service of provider prov may do; a provider that is never called does nothing
Responses(prov) ==
    IF prov \notin {"Gemini", "OpenAI", "Ollama"} THEN {Resp("unused", "", "", "")}
    ELSE {Resp("ok", t, "200", "") : t \in OracleTexts}
         \cup {Resp("exception", "", "", e) : e \in {"boom", ""}}
         \cup {Resp("timeout", "", "", "Read timed out.")}
         \cup {Resp("non200", "model not found", "404", "Error code: 404")}
         \cup (IF prov = "Ollama" THEN {} ELSE {Resp("nokey", "", "", "")})

(***************************************************************************)
(* The question's and the context's analyses, tabulated over the inputs:  *)
(* QuestionFacts[qn] and ContextFacts[passages] hold what lines 256-269   *)
(* and 302 compute from the question alone and from the passages alone.   *)
(* The domains are written {x : x \in S} so that TLC enumerates them and   *)
(* evaluates each table once.                                              *)
(***************************************************************************)
Texts(passages) == [i \in 1..Len(passages) |-> passages[i].text]

MAX_CONCEPTS == 10

FALLBACK_PASSAGES == 3

\* xs[:n]
Take(xs, n) == SubSeq(xs, 1, IF Len(xs) < n THEN Len(xs) ELSE n)

QuestionFacts ==
    [qn \in {x : x \in Questions} |->
        LET q == normalize_user_question(qn)
        IN [q |-> q,
            underspecified |-> _summary_is_underspecified(q),
            finance |-> _looks_like_financial_concepts_question(q)]]

ContextFacts ==
    [ts \in {Texts(x) : x \in RetrievedLists} |->
        [concepts |-> _extract_financial_concepts_from_context(ts),
         top |-> join("\n\n", Take(ts, FALLBACK_PASSAGES))]]

PROMPT_HEAD ==
    "You are a helpful PDF RAG assistant.\n"
    \o "- Use the provided context to answer questions about the PDF.\n"
    \o "- You MAY use general knowledge for definitions or explanations, but do NOT invent facts that are not supported by the context.\n"
    \o "- When you cite something from the PDF, prefer quoting short phrases and keep the [page N] tags if present.\n"
    \o "- Only ask clarifying questions when the user request is genuinely underspecified.\n"
    \o "\n"
    \o "Context:\n"

_build_llm_prompt(qn, context_passages) ==
    PROMPT_HEAD \o join("\n\n", context_passages) \o "\n\n"
    \o "User question: " \o qn \o "\n"
    \o "Answer:"

(***************************************************************************)
(* rag.py: the three oracles.  resp is what the provider's service does   *)
(* when called: [kind, text, status, err] with kind "ok" (a reply whose   *)
(* text is resp.text), "non200" (an HTTP error status with body           *)
(* resp.text), "timeout" or "exception" (the client raises, str(e) being  *)
(* resp.err), or "nokey" (the API key variable is unset or empty).  Each  *)
(* operator returns [ans, err, calls]: the Optional answer, the Optional  *)
(* error message and the network calls made.                               *)
(***************************************************************************)
Raises(r) == r.kind \in {"timeout", "exception"}

\* the openai and google-genai clients raise on an HTTP error status
SdkRaises(r) == Raises(r) \/ r.kind = "non200"

StripOrNone_unstripped(text) == IF text = "" THEN None ELSE Some(text)

\* (x or "").strip() or None
StripOrNone(text) == IF strip(text) = "" THEN None ELSE Some(strip(text))

try_openai_chat(prompt, r) ==
    IF r.kind = "nokey" THEN [ans |-> None, err |-> None, calls |-> <<>>]
    ELSE [ans |-> IF SdkRaises(r) THEN None ELSE StripOrNone(r.text),
          err |-> None,
          calls |-> <<[provider |-> "OpenAI", prompt |-> prompt]>>]

HTTP_ERROR_BODY_CHARS == 300

try_ollama_chat(prompt, r) ==
    [ans |-> IF r.kind = "ok" THEN StripOrNone(r.text) ELSE None,
     err |-> IF Raises(r) THEN Some(r.err)
             ELSE IF r.kind = "non200"
                  THEN Some("HTTP " \o r.status \o ": " \o Prefix(r.text, HTTP_ERROR_BODY_CHARS))
                  ELSE None,
     calls |-> <<[provider |-> "Ollama", prompt |-> prompt]>>]

try_gemini_chat(prompt, r) ==
    IF r.kind = "nokey"
    THEN [ans |-> None, err |-> Some("No GEMINI_API_KEY set."), calls |-> <<>>]
    ELSE [ans |-> IF SdkRaises(r) THEN None ELSE StripOrNone(r.text),
          err |-> IF SdkRaises(r) THEN Some(r.err) ELSE None,
          calls |-> <<[provider |-> "Gemini", prompt |-> prompt]>>]

\* a dispatch that goes on to the next provider when one gives no answer
Dispatch_chain(prov, prompt, r) ==
    LET g == try_gemini_chat(prompt, r)
        o == try_openai_chat(prompt, r)
        l == try_ollama_chat(prompt, r)
    IN IF prov \notin {"Gemini", "OpenAI", "Ollama"}
       THEN [ans |-> None, err |-> None, calls |-> <<>>]
       ELSE IF prov = "Gemini" /\ g.ans # None THEN g
       ELSE IF prov \in {"Gemini", "OpenAI"} /\ o.ans # None
            THEN [o EXCEPT !.calls = (IF prov = "Gemini" THEN g.calls ELSE <<>>) \o o.calls]
       ELSE [l EXCEPT !.calls = (IF prov = "Gemini" THEN g.calls ELSE <<>>)
                                \o (IF prov \in {"Gemini", "OpenAI"} THEN o.calls ELSE <<>>)
                                \o l.calls]

\* lines 281-296: the one configured provider is tried, once
Dispatch(prov, prompt, r) ==
    IF prov = "Gemini" THEN try_gemini_chat(prompt, r)
    ELSE IF prov = "OpenAI"
         THEN LET o == try_openai_chat(prompt, r)
              IN [o EXCEPT !.err = IF o.ans # None THEN None
                                   ELSE Some("OpenAI call failed. Check your API key.")]
    ELSE IF prov = "Ollama" THEN try_ollama_chat(prompt, r)
    ELSE [ans |-> None, err |-> None, calls |-> <<>>]

CLARIFY_TEXT ==
    "Do you want a summary of the whole PDF, or a specific section/pages? "
    \o "Also, should it be short (5 bullets) or detailed (1-2 paragraphs)?"

CONCEPTS_HEAD ==
    "Yes - I see financial-related content in the retrieved parts of the PDF. "
    \o "Examples of financial concepts/terms mentioned: "

CONCEPTS_TAIL ==
    ". If you want, tell me whether you mean *accounting terms*, *financial statements*, "
    \o "or *finance theory*, and I'll narrow it down."

NOT_FOUND_TEXT == "I couldn't find anything relevant in the PDF."

NO_PROVIDER_HEAD ==
    "No LLM provider selected. Choose one (Gemini / OpenAI / Ollama) in the sidebar. "
    \o "For now, here are the most relevant passages:\n\n"

NO_ANSWER_TAIL == " did not return an answer. Check your settings in the sidebar."

\* a fallback that shows every retrieved passage
ExtractiveFallback_all(prov, passages, llm_error) ==
    IF passages = <<>> THEN NOT_FOUND_TEXT
    ELSE LET top == join("\n\n", Texts(passages))
         IN IF prov = "None" \/ prov = ""
            THEN NO_PROVIDER_HEAD \o top
            ELSE prov \o NO_ANSWER_TAIL
                 \o (IF llm_error # None /\ llm_error[1] # ""
                     THEN "\n\nError: " \o llm_error[1] ELSE "")
                 \o "\n\nRelevant passages:\n\n" \o top

\* lines 298-315
ExtractiveFallback(prov, passages, llm_error) ==
    IF passages = <<>> THEN NOT_FOUND_TEXT
    ELSE LET top == ContextFacts[Texts(passages)].top
         IN IF prov = "None" \/ prov = ""
            THEN NO_PROVIDER_HEAD \o top
            ELSE prov \o NO_ANSWER_TAIL
                 \o (IF llm_error # None /\ llm_error[1] # ""
                     THEN "\n\nError: " \o llm_error[1] ELSE "")
                 \o "\n\nRelevant passages:\n\n" \o top

Result(a, u, c, t, l) ==
    [answer |-> a, used_llm |-> u, calls |-> c, terminal |-> t, listed |-> l]

\* lines 279-315: the Delegate state
Delegate(q, qn, passages, prov, r) ==
    LET prompt == _build_llm_prompt(IF q # "" THEN q ELSE qn, Texts(passages))
        d == Dispatch(prov, prompt, r)
    IN IF d.ans # None
       THEN Result(d.ans[1], TRUE, d.calls, "LlmAnswer", <<>>)
       ELSE Result(ExtractiveFallback(prov, passages, d.err), FALSE, d.calls,
                   "ExtractiveFallback", <<>>)

ConceptsShown_all(concepts) == concepts

\* concepts[:10]
ConceptsShown(concepts) == Take(concepts, MAX_CONCEPTS)

answer_with_llm_or_extract(qn, passages, prov, r) ==
    LET qf == QuestionFacts[qn]
        concepts == IF qf.finance THEN ContextFacts[Texts(passages)].concepts ELSE <<>>
    IN IF qf.underspecified
       THEN Result(CLARIFY_TEXT, FALSE, <<>>, "ClarifyScope", <<>>)
       ELSE IF concepts # <<>>
       THEN Result(CONCEPTS_HEAD \o join(", ", ConceptsShown(concepts)) \o CONCEPTS_TAIL,
                   FALSE, <<>>, "DirectConceptAnswer", ConceptsShown(concepts))
       ELSE Delegate(qf.q, qn, passages, prov, r)

(***************************************************************************)
(* app.py: one browser session.  Streamlit runs the script from the top   *)
(* on every widget event; st.session_state outlives the run.  A run ends  *)
(* where an exception escapes it (pdfplumber on a damaged file, the       *)
(* encoder on no passages) or where Streamlit stops it for the next       *)
(* event; the assignments to session_state made before that point stay.   *)
(* A document is named by its content; the text extractor, the encoder    *)
(* and the table parser are tabulated on the documents.                   *)
(***************************************************************************)
MaxTurns == 4

MaxRebuilds == 2

Documents == {"A", "B"}

\* hashlib.md5(file_bytes).hexdigest()
md5(file_bytes) == "md5:" \o file_bytes

\* page_chunks_to_passages(extract_pdf_text(path)) of each document
DocPassages(d) ==
    IF d = "A"
    THEN <<"[page 1] Invoice total: $1,200 due", "[page 3] The cat sat on mat 1234,567.">>
    ELSE <<"[page 2] Revenue, income, expenses, costs, profit, loss, balance, debit and credit.",
           "[page 4] Paid 1,234.56 in cash\nflow">>

\* parse_financial_tables(extract_pdf_tables(path)): a FinanceParseResult or None
DocTables(d) == IF d = "A" THEN Some("FinanceParseResult of A") ELSE None

\* Embedder.embed of one text: an L2-normalized vector
Embedding(text) ==
    IF text \in {"[page 1] Invoice total: $1,200 due", "[page 4] Paid 1,234.56 in cash\nflow",
                 "total?"}
    THEN <<1, 0>>
    ELSE IF text \in {"[page 2] Revenue, income, expenses, costs, profit, loss, balance, debit and credit.",
                      "Financial Concepts"}
    THEN <<0, 1>>
    ELSE <<-1, 0>>

\* _build_index
_build_index(passages) ==
    add(FaissIndex(EMBED_DIM), [i \in 1..Len(passages) |-> Embedding(passages[i])],
        passages).index

\* lines 143-159
NewSession ==
    [chat |-> <<>>, index |-> None, passages |-> None, finance |-> None,
     pdf_hash |-> None, pdf_path |-> None]

\* lines 172-176
needs_rebuild(ss, current_hash) ==
    \/ ss.pdf_hash # Some(current_hash)
    \/ ss.index = None
    \/ ss.passages = None

\* where a rebuild may stop: before the extraction, the indexing or the table scan
AbortPoints == {"none", "extract", "index", "tables"}

\* lines 179-198 up to the step the run stops at: session_state and, of rebuild n, what
\* it assigned
Rebuild(ss, og, n, d, abort) ==
    LET s1 == [ss EXCEPT !.pdf_path = Some("tmp.pdf of " \o d), !.pdf_hash = Some(md5(d))]
        s2 == [s1 EXCEPT !.passages = Some(DocPassages(d))]
        s3 == [s2 EXCEPT !.index = Some(_build_index(DocPassages(d)))]
        s4 == [s3 EXCEPT !.finance = DocTables(d)]
        s5 == [s4 EXCEPT !.chat = <<>>]
    IN CASE abort = "extract" -> [ss |-> s1, origin |-> og]
         [] abort = "index" -> [ss |-> s2, origin |-> [og EXCEPT !.passages = n]]
         [] abort = "tables" -> [ss |-> s3, origin |-> [og EXCEPT !.passages = n, !.index = n]]
         [] OTHER -> [ss |-> s5, origin |-> [passages |-> n, index |-> n, finance |-> n]]

AppQuestions == {"total?", "Summarise", "Financial Concepts"}

AppProviders == {"None", "Ollama"}

AppResponses(prov) ==
    IF prov = "Ollama"
    THEN {Resp("ok", " It is 42.\n", "200", ""), Resp("timeout", "", "", "Read timed out.")}
    ELSE {Resp("unused", "", "", "")}

TOP_K_MIN == 3

TOP_K_DEFAULT == 6

\* the slider's minimum and its default
TopKs == {TOP_K_MIN, TOP_K_DEFAULT}

\* lines 210-230
Ask(ss, q, prov, r, top_k) ==
    LET question_norm == QuestionFacts[q].q
        asked == IF question_norm # "" THEN question_norm ELSE q
        found == search(ss.index[1], Embedding(asked), top_k)
        out == answer_with_llm_or_extract(asked, found, prov, r)
    IN [ss EXCEPT !.chat = @ \o <<[role |-> "user", content |-> q],
                                  [role |-> "assistant", content |-> out.answer]>>]

\* the session's variables when no session is modelled, and when one starts
AppIdle ==
    /\ session_state = NewSession
    /\ run = [uploaded |-> None, rebuilt |-> FALSE, aborted |-> "none", asked |-> None]
    /\ rebuilds = <<>>
    /\ origin = [passages |-> 0, index |-> 0, finance |-> 0]
    /\ chat_hash = <<>>

\* one run of the script: with or without an uploaded file, with or without a question.
\* Only a rebuild can stop the run, only a run that reaches line 209 can take a question,
\* and only a question reads the provider, the oracle's reply and the slider.
Rerun ==
    /\ \E uploaded \in {None} \cup {Some(d) : d \in Documents} :
          IF uploaded = None
          THEN /\ run' = [uploaded |-> None, rebuilt |-> FALSE, aborted |-> "none",
                          asked |-> None]
               /\ UNCHANGED <<session_state, rebuilds, origin, chat_hash>>
          ELSE \E rebuild \in {needs_rebuild(session_state, md5(uploaded[1]))} :
               \E abort \in (IF rebuild THEN AbortPoints ELSE {"none"}) :
               \E q \in (IF abort # "none" THEN {None}
                         ELSE {None} \cup {Some(x) : x \in AppQuestions}) :
               \E prov \in (IF q = None THEN {"None"} ELSE AppProviders) :
               \E r \in AppResponses(prov) :
               \E top_k \in (IF q = None THEN {TOP_K_DEFAULT} ELSE TopKs) :
               \E rb \in {IF rebuild
                          THEN Rebuild(session_state, origin, Len(rebuilds) + 1,
                                       uploaded[1], abort)
                          ELSE [ss |-> session_state, origin |-> origin]} :
                  /\ rebuild => Len(rebuilds) < MaxRebuilds
                  /\ q # None => Len(rb.ss.chat) + 2 <= MaxTurns
                  /\ session_state' = IF q # None THEN Ask(rb.ss, q[1], prov, r, top_k)
                                      ELSE rb.ss
                  /\ origin' = rb.origin
                  /\ chat_hash' = (IF rebuild /\ abort = "none" THEN <<>> ELSE chat_hash)
                                  \o (IF q # None THEN <<rb.ss.pdf_hash, rb.ss.pdf_hash>>
                                      ELSE <<>>)
                  /\ rebuilds' = IF rebuild
                                 THEN Append(rebuilds, [doc |-> uploaded[1],
                                                        completed |-> abort = "none"])
                                 ELSE rebuilds
                  /\ run' = [uploaded |-> uploaded, rebuilt |-> rebuild, aborted |-> abort,
                             asked |-> q]
    /\ UNCHANGED routerVars
    /\ UNCHANGED indexVars
    /\ UNCHANGED toolVars

(***************************************************************************)
(* pdf_utils.py: chunk_text, one statement group per step so that the     *)
(* while loop of lines 57-62 is a cycle of the model.  The list of chunks *)
(* is kept up to MaxChunks entries: every call that returns appends fewer *)
(* than that on the texts below, and a call that appends more keeps       *)
(* looping with the list as it is.                                         *)
(***************************************************************************)
MaxChunkSize == 3

MaxOverlap == 3

MaxChunks == 7

ChunkTexts == {"", " \n ", "ab", "a  b\tcd", "abcde f"}

ChunkArgs ==
    [text : ChunkTexts, chunk_size : (-1)..MaxChunkSize, overlap : (-1)..MaxOverlap]

\* a validation that never looks at overlap
ArgumentError_size_only(chunk_size, overlap) ==
    IF chunk_size <= 0 THEN "chunk_size must be > 0" ELSE ""

\* lines 46-49: the message of the ValueError raised, "" when the arguments pass
ArgumentError(chunk_size, overlap) ==
    IF chunk_size <= 0 THEN "chunk_size must be > 0"
    ELSE IF overlap < 0 THEN "overlap must be >= 0"
    ELSE ""

Min(a, b) == IF a < b THEN a ELSE b

Max(a, b) == IF a > b THEN a ELSE b

\* text[start:end] with 0-based bounds inside the text
Slice(text, start, end) == SubSeq(text, start + 1, end)

\* the variables of chunk_text when no call is modelled
ChunkIdle ==
    /\ ck_pc = "idle"
    /\ ck_in = [text |-> "", chunk_size |-> 1, overlap |-> 0]
    /\ ck_text = ""
    /\ ck_start = 0
    /\ ck_chunks = <<>>
    /\ ck_error = ""

\* lines 46-56: the two checks, the whitespace collapse, the early return
ChunkCall ==
    /\ ck_pc = "call"
    /\ \E e \in {ArgumentError(ck_in.chunk_size, ck_in.overlap)} :
       \E text \in {join(" ", split(ck_in.text))} :
          /\ ck_error' = e
          /\ ck_text' = IF e = "" THEN text ELSE ck_text
          /\ ck_pc' = IF e # "" THEN "raised" ELSE IF text = "" THEN "returned" ELSE "while"
    /\ UNCHANGED <<ck_in, ck_start, ck_chunks>>

\* line 57: the loop test
ChunkTest ==
    /\ ck_pc = "while"
    /\ ck_pc' = IF ck_start < Len(ck_text) THEN "body" ELSE "returned"
    /\ UNCHANGED <<ck_in, ck_text, ck_start, ck_chunks, ck_error>>

\* lines 58-62: one window
ChunkBody ==
    /\ ck_pc = "body"
    /\ \E end \in {Min(Len(ck_text), ck_start + ck_in.chunk_size)} :
          /\ ck_chunks' = IF Len(ck_chunks) < MaxChunks
                          THEN Append(ck_chunks, Slice(ck_text, ck_start, end))
                          ELSE ck_chunks
          /\ IF end = Len(ck_text)
             THEN ck_pc' = "returned" /\ ck_start' = ck_start
             ELSE ck_pc' = "while" /\ ck_start' = Max(0, end - ck_in.overlap)
    /\ UNCHANGED <<ck_in, ck_text, ck_error>>

(***************************************************************************)
(* finance_analysis.py: parse_finance_request                              *)
(***************************************************************************)
MaxReqWords == 2

ReqPhrases ==
    {"Bar", "pie", "trend", "timeline", "by category", "hourly", "day", "monthly",
     "type", "show"}

\* texts whose words are separated by more than one blank, a newline or a tab
ReqRawTexts ==
    {"over  time", "Time\nSeries by\tmerchant", "  LINE chart  ", "barchart daily",
     "spend per month line\tchart"}

ReqPhraseSeqs == UNION {[1..n -> ReqPhrases] : n \in 0..MaxReqWords}

UserTexts == {join(" ", ws) : ws \in ReqPhraseSeqs} \cup ReqRawTexts

\* any(k in t for k in keys)
AnyIn(keys, t) == \E i \in 1..Len(keys) : Contains(t, keys[i])

BAR_KEYS == <<"bar chart", "barchart", "bar">>

PIE_KEYS == <<"pie chart", "pie">>

LINE_KEYS == <<"line chart", "trend", "over time", "time series", "timeline", "line">>

CATEGORY_KEYS == <<"category", "merchant", "type", "by category">>

HOUR_KEYS == <<"hour", "hourly">>

DAY_KEYS == <<"day", "daily">>

MONTH_KEYS == <<"month", "monthly">>

\* line 271
request_text(text) == join(" ", split(lower(strip(text))))

\* the chart keyword sets tested with pie before bar
chart_of_pie_first(t) ==
    IF AnyIn(PIE_KEYS, t) THEN "pie"
    ELSE IF AnyIn(BAR_KEYS, t) THEN "bar"
    ELSE IF AnyIn(LINE_KEYS, t) THEN "line"
    ELSE "none"

\* lines 272-278
chart_of(t) ==
    IF AnyIn(BAR_KEYS, t) THEN "bar"
    ELSE IF AnyIn(PIE_KEYS, t) THEN "pie"
    ELSE IF AnyIn(LINE_KEYS, t) THEN "line"
    ELSE "none"

\* lines 280-288
group_of(t) ==
    IF AnyIn(CATEGORY_KEYS, t) THEN "category"
    ELSE IF AnyIn(HOUR_KEYS, t) THEN "hour"
    ELSE IF AnyIn(DAY_KEYS, t) THEN "day"
    ELSE IF AnyIn(MONTH_KEYS, t) THEN "month"
    ELSE "auto"

parse_finance_request(text) ==
    [chart |-> chart_of(request_text(text)), group |-> group_of(request_text(text))]

\* the variables of parse_finance_request when no call is modelled
RequestIdle ==
    /\ req_pc = "idle"
    /\ user_text = ""
    /\ intent = [chart |-> "none", group |-> "auto"]

\* lines 266-290: one call
ParseRequest ==
    /\ req_pc = "call"
    /\ intent' = parse_finance_request(user_text)
    /\ req_pc' = "done"
    /\ UNCHANGED user_text

(***************************************************************************)
(* finance_analysis.py: the column role detector, the table candidate     *)
(* selector and aggregate_finance.  A grid is a sequence of rows, a row a *)
(* sequence of cells, a cell None or Some(text) as pdfplumber gives them. *)
(* A DataFrame is the record of its column names and its rows; the grids *)
(* of the model are rectangular and their non-empty header names differ.  *)
(***************************************************************************)
_DATE_HINTS == <<"date", "time", "datetime", "timestamp">>

_AMOUNT_HINTS ==
    <<"amount", "amt", "value", "total", "debit", "credit", "payment", "balance">>

_CATEGORY_HINTS == <<"category", "type", "merchant", "description", "desc", "account">>

DigitVal ==
    ("0" :> 0) @@ ("1" :> 1) @@ ("2" :> 2) @@ ("3" :> 3) @@ ("4" :> 4) @@
    ("5" :> 5) @@ ("6" :> 6) @@ ("7" :> 7) @@ ("8" :> 8) @@ ("9" :> 9)

DigitStr == <<"0", "1", "2", "3", "4", "5", "6", "7", "8", "9">>

\* the characters of s that are in keep, in order
RECURSIVE KeepChars(_, _)
KeepChars(s, keep) ==
    IF Len(s) = 0 THEN ""
    ELSE IF Len(s) = 1 THEN (IF s \in keep THEN s ELSE "")
    ELSE KeepChars(SubSeq(s, 1, Len(s) \div 2), keep)
            \o KeepChars(SubSeq(s, Len(s) \div 2 + 1, Len(s)), keep)

\* s.replace(c, "")
RECURSIVE Remove(_, _)
Remove(s, c) ==
    IF Len(s) = 0 THEN ""
    ELSE IF Len(s) = 1 THEN (IF s = c THEN "" ELSE s)
    ELSE Remove(SubSeq(s, 1, Len(s) \div 2), c)
            \o Remove(SubSeq(s, Len(s) \div 2 + 1, Len(s)), c)

\* the value of a string of decimal digits
RECURSIVE DigitsValue(_)
DigitsValue(s) ==
    IF Len(s) = 0 THEN 0
    ELSE 10 * DigitsValue(SubSeq(s, 1, Len(s) - 1)) + DigitVal[Char(s, Len(s))]

\* line 26
_normalize_col(c) == join(" ", split(lower(strip(c))))

NUMBER_CHARS == DOMAIN DigitVal \cup {".", "-", "+"}

\* float(s) on a text of digits, dots and signs: None when Python raises ValueError,
\* else the value in hundredths (the amounts of the model have at most two decimals)
ParseFloat(s) ==
    LET signed == Len(s) > 0 /\ Char(s, 1) \in {"+", "-"}
        body   == IF signed THEN SubSeq(s, 2, Len(s)) ELSE s
        dots   == {i \in 1..Len(body) : Char(body, i) = "."}
        dot    == IF dots = {} THEN Len(body) + 1 ELSE CHOOSE i \in dots : TRUE
        whole  == SubSeq(body, 1, dot - 1)
        frac   == SubSeq(body, dot + 1, Len(body))
        cents  == SubSeq(frac \o "00", 1, 2)
        v      == 100 * DigitsValue(whole) + DigitsValue(cents)
    IN  IF /\ Cardinality(dots) <= 1
           /\ AllDigits(whole, 1, Len(whole)) /\ AllDigits(frac, 1, Len(frac))
           /\ Len(whole) + Len(frac) > 0
        THEN Some(IF signed /\ Char(s, 1) = "-" THEN 0 - v ELSE v)
        ELSE None

Abs(v) == IF v < 0 THEN 0 - v ELSE v

\* lines 29-45 on the text of a cell
NumberOfText(text) ==
    LET s   == strip(text)
        neg == Contains(s, "(") /\ Contains(s, ")")
        t   == KeepChars(Remove(Remove(s, "$"), ","), NUMBER_CHARS)
        v   == ParseFloat(t)
    IN  IF s = "" \/ t = "" \/ v = None THEN None
        ELSE IF neg THEN Some(0 - Abs(v[1])) ELSE v

\* lines 29-45
_to_number(x) == IF x = None THEN None ELSE NumberOfText(x[1])

\* the loops of lines 50-53 nested the other way: the first column that holds any hint
_best_col_by_column(cols, hints) ==
    LET hit == {c \in 1..Len(cols) :
                   \E h \in 1..Len(hints) : Contains(_normalize_col(cols[c]), hints[h])}
    IN  IF hit = {} THEN None
        ELSE Some(cols[CHOOSE c \in hit : \A d \in hit : c <= d])

\* the column found from hint number h on and, within it, from column number c on
RECURSIVE BestColFrom(_, _, _, _)
BestColFrom(cols, hints, h, c) ==
    IF h > Len(hints) THEN None
    ELSE IF c > Len(cols) THEN BestColFrom(cols, hints, h + 1, 1)
    ELSE IF Contains(_normalize_col(cols[c]), hints[h]) THEN Some(cols[c])
    ELSE BestColFrom(cols, hints, h, c + 1)

\* lines 48-54
_best_col(cols, hints) == BestColFrom(cols, hints, 1, 1)

\* the year of the dates of the model; DaysBefore is its calendar
YEAR == "2024"

DaysBefore == <<0, 31, 60, 91, 121, 152, 182, 213, 244, 274, 305, 335, 366>>

TwoDigits(s, i) == 10 * DigitVal[Char(s, i)] + DigitVal[Char(s, i + 1)]

\* a text of the form 2024-MM-DD HH:MM naming a moment of that year
IsTimestampText(s) ==
    /\ Len(s) = 16
    /\ SubSeq(s, 1, 4) = YEAR
    /\ Char(s, 5) = "-" /\ Char(s, 8) = "-" /\ Char(s, 11) = " " /\ Char(s, 14) = ":"
    /\ \A i \in {6, 7, 9, 10, 12, 13, 15, 16} : IsDigit(Char(s, i))
    /\ TwoDigits(s, 6) \in 1..12
    /\ TwoDigits(s, 9) \in 1..(DaysBefore[TwoDigits(s, 6) + 1] - DaysBefore[TwoDigits(s, 6)])
    /\ TwoDigits(s, 12) \in 0..23
    /\ TwoDigits(s, 15) \in 0..59

\* pd.to_datetime(cell, errors="coerce") on the cells of the model: a timestamp for a
\* text of the form above, NaT (None) for a null, a blank, a word or an amount
to_datetime(x) ==
    IF x = None THEN None
    ELSE IF IsTimestampText(x[1])
    THEN Some([month |-> TwoDigits(x[1], 6), day |-> TwoDigits(x[1], 9),
               hour |-> TwoDigits(x[1], 12), minute |-> TwoDigits(x[1], 15)])
    ELSE None

Pad2(n) == DigitStr[(n \div 10) + 1] \o DigitStr[(n % 10) + 1]

\* str() of an element of a datetime column
TimestampStr(w) ==
    IF w = None THEN "NaT"
    ELSE YEAR \o "-" \o Pad2(w[1].month) \o "-" \o Pad2(w[1].day) \o " "
              \o Pad2(w[1].hour) \o ":" \o Pad2(w[1].minute) \o ":00"

\* the index of a column name in a list of distinct names
ColumnIndex(cols, name) == CHOOSE i \in 1..Len(cols) : cols[i] = name

\* df[c] as the sequence of the cells of the rows
Column(df, name) ==
    [r \in 1..Len(df.rows) |-> df.rows[r][ColumnIndex(df.columns, name)]]

NonNull(cells) == {r \in 1..Len(cells) : cells[r] # None}

\* the regular expression of line 19 finds a match in a text exactly when the text
\* holds a digit: everything around \d{1,3} is optional
AmountLike(text) == \E i \in 1..Len(text) : IsDigit(Char(text, i))

\* lines 64-73 from column number c on, best_score kept as the fraction num / den
RECURSIVE AmountScan(_, _, _, _, _)
AmountScan(df, c, best, num, den) ==
    IF c > Len(df.columns) THEN [best |-> best, num |-> num, den |-> den]
    ELSE LET cells == Column(df, df.columns[c])
             n     == Cardinality(NonNull(cells))
             hits  == Cardinality({r \in NonNull(cells) : AmountLike(cells[r][1])})
         IN  IF n > 0 /\ hits * den > num * n
             THEN AmountScan(df, c + 1, Some(df.columns[c]), hits, n)
             ELSE AmountScan(df, c + 1, best, num, den)

\* lines 57-74: the column and the pass that found it
_detect_amount_col(df) ==
    LET hinted == _best_col(df.columns, _AMOUNT_HINTS)
        scan   == AmountScan(df, 1, None, 0, 1)
    IN  IF hinted # None /\ hinted # Some("") THEN [col |-> hinted, by |-> "hint"]
        ELSE IF 10 * scan.num >= 3 * scan.den THEN [col |-> scan.best, by |-> "score"]
        ELSE [col |-> None, by |-> "score"]

\* lines 84-92 from column number c on, best_rate kept as a count of the rows
RECURSIVE DatetimeScan(_, _, _, _)
DatetimeScan(df, c, best, count) ==
    IF c > Len(df.columns) THEN [best |-> best, count |-> count]
    ELSE LET cells  == Column(df, df.columns[c])
             good == Cardinality({r \in 1..Len(cells) : to_datetime(cells[r]) # None})
         IN  IF good > count
             THEN DatetimeScan(df, c + 1, Some(df.columns[c]), good)
             ELSE DatetimeScan(df, c + 1, best, count)

\* lines 77-93: the column and the pass that found it
_detect_datetime_col(df) ==
    LET hinted == _best_col(df.columns, _DATE_HINTS)
        scan   == DatetimeScan(df, 1, None, 0)
    IN  IF hinted # None /\ hinted # Some("") THEN [col |-> hinted, by |-> "hint"]
        ELSE IF 10 * scan.count >= 3 * Len(df.rows)
        THEN [col |-> scan.best, by |-> "score"]
        ELSE [col |-> None, by |-> "score"]

\* the columns left with nothing excluded
Remaining_all(cols, exclude) == cols

\* line 97
Remaining(cols, exclude) ==
    SelectSeq(cols, LAMBDA c : \A i \in 1..Len(exclude) : c # exclude[i])

\* a scan that keeps the first column that holds a value, whatever its score
RECURSIVE CategoryScan_first(_, _, _, _, _, _)
CategoryScan_first(df, cols, c, best, num, den) ==
    IF c > Len(cols) THEN best
    ELSE IF Cardinality(NonNull(Column(df, cols[c]))) > 0 THEN Some(cols[c])
    ELSE CategoryScan_first(df, cols, c + 1, best, num, den)

\* lines 105-116 from column number c on; the score 1 - |unique/n - 0.2| of a column is
\* kept as the distance |5 * unique - n| / (5 * n), a smaller distance a greater score
RECURSIVE CategoryScan(_, _, _, _, _, _)
CategoryScan(df, cols, c, best, num, den) ==
    IF c > Len(cols) THEN best
    ELSE LET cells  == Column(df, cols[c])
             n      == Cardinality(NonNull(cells))
             unique == Cardinality({cells[r][1] : r \in NonNull(cells)})
             dist   == Abs(5 * unique - n)
         IN  IF n > 0 /\ dist < 5 * n /\ (best = None \/ dist * den < num * n)
             THEN CategoryScan(df, cols, c + 1, Some(cols[c]), dist, n)
             ELSE CategoryScan(df, cols, c + 1, best, num, den)

\* lines 96-117: the column and the pass that found it
_detect_category_col(df, exclude) ==
    LET cols   == Remaining(df.columns, exclude)
        hinted == _best_col(cols, _CATEGORY_HINTS)
    IN  IF hinted # None /\ hinted # Some("") THEN [col |-> hinted, by |-> "hint"]
        ELSE [col |-> CategoryScan(df, cols, 1, None, 0, 1), by |-> "score"]

\* line 133
HeaderOf(row) ==
    [i \in 1..Len(row) |-> IF row[i] = None THEN "" ELSE strip(row[i][1])]

\* lines 138-139: the frame of the body rows without the rows that are all null
DataFrame(body, header) ==
    [columns |-> header,
     rows    |-> SelectSeq(body, LAMBDA row : \E i \in 1..Len(row) : row[i] # None)]

\* not x, for an optional column name
Falsy(col) == col = None \/ col = Some("")

\* lines 148-150: the datetime of every row, then the amount of every row; when both
\* roles name one column the amount is read from the converted column
Coerced(df, dt_col, amt_col) ==
    LET when == [r \in 1..Len(df.rows) |-> to_datetime(Column(df, dt_col)[r])]
    IN  [r \in 1..Len(df.rows) |->
            [cells  |-> df.rows[r],
             when   |-> when[r],
             amount |-> IF amt_col = dt_col
                        THEN _to_number(Some(TimestampStr(when[r])))
                        ELSE _to_number(Column(df, amt_col)[r])]]

\* the rows that have a datetime, whatever their amount
dropna_datetime_only(records) == SelectSeq(records, LAMBDA x : x.when # None)

\* line 151
dropna(records) == SelectSeq(records, LAMBDA x : x.when # None /\ x.amount # None)

NoRole == [col |-> None, by |-> "none"]

\* an iteration of the loop of line 129 that ends in continue at the named step, with
\* the rows that were left at that point when the step is the count of line 152
Skipped(step, dt, amt, records) ==
    [step |-> step, datetime |-> dt, amount |-> amt, category |-> NoRole,
     columns |-> <<>>, records |-> records]

\* lines 130-157: one iteration, to the continue it ends in or to the candidate
Candidate(t) ==
    IF Len(t) < 2 THEN Skipped("grid", NoRole, NoRole, <<>>)
    ELSE IF Cardinality({i \in 1..Len(t[1]) : HeaderOf(t[1])[i] # ""}) < 2
    THEN Skipped("header", NoRole, NoRole, <<>>)
    ELSE LET df == DataFrame(Tail(t), HeaderOf(t[1]))
         IN  IF Len(df.rows) < 3 THEN Skipped("rows", NoRole, NoRole, <<>>)
             ELSE LET dt  == _detect_datetime_col(df)
                      amt == _detect_amount_col(df)
                  IN  IF Falsy(dt.col) \/ Falsy(amt.col) THEN Skipped("roles", dt, amt, <<>>)
                      ELSE LET records == dropna(Coerced(df, dt.col[1], amt.col[1]))
                           IN  IF Len(records) < 3 THEN Skipped("valid", dt, amt, records)
                               ELSE [step     |-> "candidate",
                                     datetime |-> dt,
                                     amount   |-> amt,
                                     category |->
                                        _detect_category_col(
                                            [columns |-> df.columns,
                                             rows    |-> [r \in 1..Len(records) |->
                                                             records[r].cells]],
                                            <<dt.col[1], amt.col[1]>>),
                                     columns  |-> df.columns,
                                     records  |-> records]

\* line 157
FinanceParseResult(c) ==
    [df |-> [columns |-> c.columns, records |-> c.records],
     datetime_col |-> c.datetime.col[1],
     amount_col   |-> c.amount.col[1],
     category_col |-> c.category.col]

\* the loop of lines 129-160 with >= in line 158
RECURSIVE SelectLast(_, _, _, _)
SelectLast(cands, i, best, best_rows) ==
    IF i > Len(cands) THEN best
    ELSE IF cands[i].step = "candidate" /\ Len(cands[i].records) >= best_rows
    THEN SelectLast(cands, i + 1, Some(FinanceParseResult(cands[i])), Len(cands[i].records))
    ELSE SelectLast(cands, i + 1, best, best_rows)

\* the loop of lines 129-160 from grid number i on
RECURSIVE SelectFrom(_, _, _, _)
SelectFrom(cands, i, best, best_rows) ==
    IF i > Len(cands) THEN best
    ELSE IF cands[i].step = "candidate" /\ Len(cands[i].records) > best_rows
    THEN SelectFrom(cands, i + 1, Some(FinanceParseResult(cands[i])), Len(cands[i].records))
    ELSE SelectFrom(cands, i + 1, best, best_rows)

\* lines 126-128 and 162, on the outcomes of the iterations
Select(cands) == SelectFrom(cands, 1, None, 0)

Frequencies == {"H", "D", "M"}

\* the number of the period of frequency f a timestamp falls in
Period(w, f) ==
    IF f = "M" THEN w.month
    ELSE IF f = "D" THEN DaysBefore[w.month] + w.day
    ELSE 24 * (DaysBefore[w.month] + w.day) + w.hour

RECURSIVE SumAmounts(_, _, _, _)
SumAmounts(records, f, p, r) ==
    IF r > Len(records) THEN 0
    ELSE (IF Period(records[r].when[1], f) = p THEN records[r].amount[1] ELSE 0)
            + SumAmounts(records, f, p, r + 1)

\* lines 171-179: resample(freq).sum() has one bin for every period from the earliest
\* to the latest row, an empty bin summing to 0
aggregate_finance(result, f) ==
    LET records == result.df.records
        ps == {Period(records[r].when[1], f) : r \in 1..Len(records)}
        lo == CHOOSE p \in ps : \A q \in ps : p <= q
        hi == CHOOSE p \in ps : \A q \in ps : p >= q
    IN  [k \in 1..(hi - lo + 1) |->
            [period       |-> lo + k - 1,
             total_amount |-> SumAmounts(records, f, lo + k - 1, 1),
             abs_total    |-> Abs(SumAmounts(records, f, lo + k - 1, 1))]]

\* the grids a PDF may hold: tables with roles named by their headers, by their
\* content or not at all, with rows that fail coercion, and grids too small to use
GridPool ==
    {
     <<<<Some("Date"), Some("Amount"), Some("Category")>>,
       <<Some("2024-01-30 09:00"), Some("$12.50"), Some("Food")>>,
       <<Some("2024-02-01 09:00"), Some("($4.00)"), Some("Rent")>>,
       <<Some("2024-01-30 17:30"), Some("1,200.00"), Some("Food")>>>>,
     <<<<Some("Time"), Some("Date"), Some("Total")>>,
       <<Some("early"), Some("2024-01-30 09:00"), Some("$5.00")>>,
       <<Some("late"), Some("2024-01-30 17:30"), Some("-$3.00")>>,
       <<Some("late"), Some("2024-01-31 23:15"), Some("$7.25")>>>>,
     <<<<Some("Payment Date"), Some("Memo"), Some("Payee")>>,
       <<Some("2024-01-30 09:00"), Some("$5.00"), Some("Ann")>>,
       <<Some("2024-01-30 17:30"), Some("$6.00"), Some("Bob")>>,
       <<Some("2024-02-01 09:00"), Some("$7.00"), Some("Ann")>>>>,
     <<<<Some("Payment Date"), Some("Amount"), Some("Type")>>,
       <<Some("2024-01-30 09:00"), Some("$5.00"), Some("Card")>>,
       <<Some("2024-01-31 23:15"), Some("$6.00"), Some("Cash")>>,
       <<Some("2024-02-01 09:00"), Some("+7"), Some("Card")>>>>,
     <<<<Some("When"), Some("Cost"), Some("Notes")>>,
       <<Some("2024-01-30 09:00"), Some("$5.00"), Some("gift")>>,
       <<Some("2024-01-30 17:30"), Some("$6.00"), Some("fuel")>>,
       <<Some("2024-02-01 09:00"), Some("$7.00"), Some("gift")>>>>,
     <<<<Some("Cost"), Some("When"), Some("Notes")>>,
       <<Some("$5.00"), Some("2024-01-30 09:00"), None>>,
       <<Some("$6.00"), Some("2024-01-30 17:30"), None>>,
       <<Some("($2.50)"), Some("2024-02-01 09:00"), None>>>>,
     <<<<Some("Date"), Some("Amount")>>,
       <<Some("2024-01-30 09:00"), Some("$1.00")>>,
       <<Some("2024-01-30 17:30"), Some("n/a")>>,
       <<Some("2024-01-31 23:15"), Some("$2.00")>>,
       <<Some("2024-02-01 09:00"), Some("$3.00")>>>>,
     <<<<Some("DATE"), Some("Debit"), Some("Merchant")>>,
       <<Some("2024-01-30 09:00"), Some("10.00"), Some("Shop")>>,
       <<Some("2024-01-30 17:30"), Some("20.00"), Some("Cafe")>>,
       <<Some("2024-01-31 23:15"), Some("30.00"), Some("Shop")>>,
       <<Some("2024-02-01 09:00"), Some("40.00"), Some("Cafe")>>>>,
     <<<<Some("Date"), Some("Amount"), Some("Desc")>>,
       <<Some("2024-01-30 09:00"), Some("$1.00"), Some("rent")>>,
       <<None, Some("$2.00"), Some("fuel")>>,
       <<Some("2024-02-01 09:00"), Some("$3.00"), Some("rent")>>>>,
     <<<<Some("Date"), Some("Amount")>>>>,
     <<>>,
     <<<<Some("Date"), None, Some("")>>,
       <<Some("2024-01-30 09:00"), Some("$1.00"), Some("x")>>,
       <<Some("2024-01-30 17:30"), Some("$2.00"), Some("y")>>,
       <<Some("2024-02-01 09:00"), Some("$3.00"), Some("z")>>>>,
     <<<<Some("Date"), Some("Amount")>>,
       <<Some("2024-01-30 09:00"), Some("$1.00")>>,
       <<None, None>>,
       <<Some("2024-01-30 17:30"), Some("$2.00")>>>>,
     <<<<Some("Item"), Some("Cost")>>,
       <<Some("2024-01-30 09:00"), Some("$1.00")>>,
       <<Some("ink"), Some("$2.00")>>,
       <<Some("cap"), Some("$3.00")>>,
       <<Some("pen"), Some("$4.00")>>>>,
     <<<<Some("Account Balance"), Some("Date"), Some("Info")>>,
       <<Some("$100.00"), Some("2024-01-30 09:00"), Some("in")>>,
       <<Some("$90.00"), Some("2024-01-30 17:30"), Some("out")>>,
       <<Some("$80.00"), Some("2024-02-01 09:00"), Some("out")>>>>,
     <<<<Some(""), Some("Cost"), Some("Memo")>>,
       <<Some("2024-01-30 09:00"), Some("$1.00"), Some("gift")>>,
       <<Some("2024-01-30 17:30"), Some("$2.00"), Some("fuel")>>,
       <<Some("2024-02-01 09:00"), Some("$3.00"), Some("toys")>>>>,
     <<<<Some("Date"), Some("Amount"), Some("Who"), Some("What")>>,
       <<Some("2024-01-30 09:00"), Some("$1.00"), Some("Ann"), Some("food")>>,
       <<Some("2024-01-30 17:30"), Some("$2.00"), Some("Bob"), Some("food")>>,
       <<Some("2024-01-31 23:15"), Some("$3.00"), Some("Cyd"), Some("rent")>>,
       <<Some("2024-02-01 09:00"), Some("$4.00"), Some("Dee"), Some("rent")>>>>,
     <<<<Some(" Posted  Date "), Some("Total"), Some("Amount")>>,
       <<Some("2024-01-30 09:00"), Some("$9.00"), Some("$4.00")>>,
       <<Some("2024-01-30 17:30"), Some("$8.00"), Some("$3.00")>>,
       <<Some("2024-02-01 09:00"), Some("$7.00"), Some("$2.00")>>>>
    }

MaxTables == 2

TableLists == UNION {[1..n -> GridPool] : n \in 0..MaxTables}

\* the outcome of the loop body on every grid of the pool
CandidateOf == [t \in {g : g \in GridPool} |-> Candidate(t)]

\* lines 120-162
parse_financial_tables(ts) == Select([i \in 1..Len(ts) |-> CandidateOf[ts[i]]])

\* the variables of parse_financial_tables when no call is modelled
FinanceIdle ==
    /\ fin_pc = "idle"
    /\ tables = <<>>
    /\ parsed = None
    /\ log = <<>>
    /\ freq = ""
    /\ agg = <<>>

\* lines 120-162: one call; log keeps what each iteration of the loop came to
Parse ==
    /\ fin_pc = "call"
    /\ log' = [i \in 1..Len(tables) |-> CandidateOf[tables[i]]]
    /\ parsed' = parse_financial_tables(tables)
    /\ fin_pc' = "parsed"
    /\ UNCHANGED <<tables, freq, agg>>

\* lines 165-179: one call on the result of the parse, at any frequency
Aggregate ==
    /\ fin_pc = "parsed"
    /\ parsed # None
    /\ \E f \in Frequencies :
          /\ freq' = f
          /\ agg' = aggregate_finance(parsed[1], f)
    /\ fin_pc' = "aggregated"
    /\ UNCHANGED <<tables, parsed, log>>

\* the variables of the three library calls when none is modelled
ToolsIdle == ChunkIdle /\ RequestIdle /\ FinanceIdle

\* the router's variables when no call is modelled
RouterIdle ==
    /\ pc = "idle"
    /\ question = ""
    /\ retrieved = <<>>
    /\ provider = "None"
    /\ resp = Resp("unused", "", "", "")
    /\ answer = ""
    /\ used_llm = FALSE
    /\ calls = <<>>
    /\ terminal = "none"
    /\ listed = <<>>

InitRouter ==
    /\ IndexIdle
    /\ AppIdle
    /\ ToolsIdle
    /\ pc = "start"
    /\ question \in Questions
    /\ retrieved \in RetrievedLists
    /\ provider \in Providers
    /\ resp = Resp("unused", "", "", "")
    /\ answer = ""
    /\ used_llm = FALSE
    /\ calls = <<>>
    /\ terminal = "none"
    /\ listed = <<>>

\* one execution of answer_with_llm_or_extract on the drawn inputs
Answer ==
    /\ pc = "start"
    /\ \E r \in Responses(provider) :
          \E out \in {answer_with_llm_or_extract(question, retrieved, provider, r)} :
             /\ resp' = r
             /\ answer' = out.answer
             /\ used_llm' = out.used_llm
             /\ calls' = out.calls
             /\ terminal' = out.terminal
             /\ listed' = out.listed
    /\ pc' = "done"
    /\ UNCHANGED <<question, retrieved, provider>>
    /\ UNCHANGED indexVars
    /\ UNCHANGED appVars
    /\ UNCHANGED toolVars

NextRouter == Answer

SpecRouter == InitRouter /\ [][NextRouter]_vars

(***************************************************************************)
(* Claims about answer_with_llm_or_extract, checked under SpecRouter.     *)
(***************************************************************************)
Done == pc = "done"

OracleProviders == {"Gemini", "OpenAI", "Ollama"}

\* the question's normalized text holds a summarization keyword and no scope marker
SummaryWithoutScope ==
    [qn \in {x : x \in Questions} |->
        LET t == lower(normalize_user_question(qn))
        IN /\ \E k \in {"summarize", "summary", "summarise"} : Contains(t, k)
           /\ ~\E m \in {"page", "pages", "section", "chapter", "table", "about",
                         "focus on", "only"} : Contains(t, m)]

\* the question matches the financial-concepts pattern
FinancialConceptsPattern ==
    [qn \in {x : x \in Questions} |->
        LET t == lower(normalize_user_question(qn))
        IN \/ Contains(t, "financial concept")
           \/ /\ Contains(t, "financial")
              /\ \E w \in {"concept", "concepts", "terms", "topics"} : Contains(t, w)]

\* C1: a question with a summarization keyword and no scope marker ends in
\* ClarifyScope: the fixed clarifying question, usedOracle false and no oracle call,
\* whatever the provider and the passages, also when the question is a
\* financial-concepts question.
Theorem_C1 ==
    (Done /\ SummaryWithoutScope[question])
        => /\ terminal = "ClarifyScope"
           /\ answer = CLARIFY_TEXT
           /\ used_llm = FALSE
           /\ calls = <<>>

Witness_C1 ==
    /\ Done
    /\ SummaryWithoutScope[question]
    /\ FinancialConceptsPattern[question]
    /\ provider = "Gemini"
    /\ Len(retrieved) > 0
    /\ answer = CLARIFY_TEXT

\* C2: an execution makes at most one oracle call, and only to the provider the
\* setting names; a failed or empty call is not retried and no other provider is tried.
Theorem_C2 ==
    Done => /\ Len(calls) <= 1
            /\ \A i \in 1..Len(calls) :
                  calls[i].provider = provider /\ provider \in OracleProviders

Witness_C2 ==
    /\ Done
    /\ Len(calls) = 1
    /\ provider = "Gemini"
    /\ resp.kind = "timeout"
    /\ terminal = "ExtractiveFallback"

\* the first 3 retrieved passages, in retrieval order, concatenated
FirstThree ==
    [ps \in {x : x \in RetrievedLists} |->
        IF Len(ps) = 0 THEN ""
        ELSE IF Len(ps) = 1 THEN ps[1].text
        ELSE IF Len(ps) = 2 THEN ps[1].text \o "\n\n" \o ps[2].text
        ELSE ps[1].text \o "\n\n" \o ps[2].text \o "\n\n" \o ps[3].text]

\* the answer opens with a message saying that the attempt failed or that no provider is selected
OpensWithFailureMessage ==
    \/ StartsWith(answer, "No LLM provider selected.")
    \/ StartsWith(answer, provider \o " did not return an answer.")

FallbackShape ==
    /\ used_llm = FALSE
    /\ OpensWithFailureMessage
    /\ EndsWith(answer, "\n\n" \o FirstThree[retrieved])

\* C3 as stated: in the extractive fallback the answer is a failure message followed by
\* the first 3 retrieved passages, for every list of retrieved passages of any length.
Original_C3 == (Done /\ terminal = "ExtractiveFallback") => FallbackShape

\* C3 as amended: that holds for every non-empty list; for the empty list the answer is
\* the fixed not-found sentence, with usedOracle false.
Theorem_C3 ==
    (Done /\ terminal = "ExtractiveFallback")
        => IF retrieved = <<>>
           THEN answer = "I couldn't find anything relevant in the PDF." /\ used_llm = FALSE
           ELSE FallbackShape

Witness_C3 ==
    /\ Done
    /\ terminal = "ExtractiveFallback"
    /\ Len(retrieved) = 4
    /\ provider = "Ollama"
    /\ resp.kind = "ok"
    /\ resp.text = ""

\* the oracle was called and failed: timeout, error status, exception or empty text
OracleFailed ==
    /\ calls # <<>>
    /\ \/ resp.kind \in {"timeout", "non200", "exception"}
       \/ resp.kind = "ok" /\ resp.text = ""

\* the error text the failure produced, "" when it produced none
UnderlyingError ==
    IF resp.kind \in {"timeout", "exception"} THEN resp.err
    ELSE IF resp.kind = "non200" THEN (IF provider = "Ollama" THEN resp.text ELSE resp.err)
    ELSE ""

\* C4: for each provider and each failure kind the call returns with usedOracle false,
\* and the returned text contains the failure's error text when there is one.  Stated
\* on the calls that retrieved at least one passage, where the fallback text is built
\* from the provider's outcome.
Claim_C4 ==
    (Done /\ provider \in OracleProviders /\ OracleFailed /\ retrieved # <<>>)
        => /\ used_llm = FALSE
           /\ UnderlyingError # "" => Contains(answer, UnderlyingError)

\* the text without its leading and trailing whitespace
Trimmed(t) ==
    LET keep == {i \in 1..Len(t) : ~IsSpace(Char(t, i))}
    IN IF keep = {} THEN ""
       ELSE SubSeq(t, CHOOSE i \in keep : \A j \in keep : i <= j,
                      CHOOSE i \in keep : \A j \in keep : i >= j)

OracleReplied == calls # <<>> /\ resp.kind = "ok"

\* C5 as stated: usedOracle is true exactly when the oracle was called and returned
\* non-empty text, and then the answer is exactly the oracle's text.
Original_C5 ==
    Done => /\ used_llm <=> (OracleReplied /\ resp.text # "")
            /\ used_llm => answer = resp.text

\* C5 as amended: usedOracle is true exactly when the oracle was called and its text is
\* non-empty once surrounding whitespace is stripped, the answer then being that
\* stripped text (LlmAnswer); elsewhere usedOracle is false.
Theorem_C5 ==
    Done => /\ used_llm <=> (OracleReplied /\ Trimmed(resp.text) # "")
            /\ used_llm => (answer = Trimmed(resp.text) /\ terminal = "LlmAnswer")
            /\ terminal \in {"ClarifyScope", "DirectConceptAnswer", "ExtractiveFallback"}
                  => used_llm = FALSE

Witness_C5 ==
    /\ Done
    /\ used_llm
    /\ answer # resp.text
    /\ answer = "It is 42."

\* the vocabulary of the scan: the finance terms, then the currency-amount label
Vocabulary == _FINANCE_TERMS \o <<"currency amounts">>

\* the positions of the vocabulary that the scan of the concatenated passages hits
Hits ==
    [ps \in {x : x \in RetrievedLists} |->
        LET joined == join("\n", Texts(ps))
        IN {i \in 1..Len(_FINANCE_TERMS) : Contains(lower(joined), _FINANCE_TERMS[i])}
           \cup (IF _MONEY_RE_search(joined) THEN {Len(Vocabulary)} ELSE {})]

VocabularyIndex(term) == CHOOSE i \in 1..Len(Vocabulary) : Vocabulary[i] = term

\* listed holds the first (at most 10) hits, each once, in vocabulary order
ListsFirstHits(hits) ==
    /\ Len(listed) = (IF Cardinality(hits) < 10 THEN Cardinality(hits) ELSE 10)
    /\ \A i \in 1..Len(listed) : listed[i] \in {Vocabulary[h] : h \in hits}
    /\ \A i \in 1..(Len(listed) - 1) :
          VocabularyIndex(listed[i]) < VocabularyIndex(listed[i + 1])
    /\ \A h \in hits : \A i \in 1..Len(listed) :
          h < VocabularyIndex(listed[i]) => \E j \in 1..Len(listed) : listed[j] = Vocabulary[h]

\* C6: when ClarifyScope does not apply and the question matches the financial-concepts
\* pattern, a scan with at least one hit ends in DirectConceptAnswer (the template
\* listing the hits de-duplicated, in vocabulary order, at most 10, no oracle call),
\* and a scan with no hit delegates.
Theorem_C6 ==
    (Done /\ ~SummaryWithoutScope[question] /\ FinancialConceptsPattern[question])
        => IF Hits[retrieved] # {}
           THEN /\ terminal = "DirectConceptAnswer"
                /\ used_llm = FALSE
                /\ calls = <<>>
                /\ ListsFirstHits(Hits[retrieved])
                /\ answer = CONCEPTS_HEAD \o join(", ", listed) \o CONCEPTS_TAIL
           ELSE terminal \in {"LlmAnswer", "ExtractiveFallback"}

Witness_C6 ==
    /\ Done
    /\ terminal = "DirectConceptAnswer"
    /\ Cardinality(Hits[retrieved]) > 10
    /\ Len(listed) = 10
    /\ provider = "OpenAI"

(***************************************************************************)
(* The FaissIndex specification: adds and searches on one index.          *)
(***************************************************************************)
InitIndex == RouterIdle /\ AppIdle /\ ToolsIdle /\ IndexIdle

NextIndex == AddStep \/ SearchStep

SpecIndex == InitIndex /\ [][NextIndex]_vars

\* the passages the index stores
Stored == {index.passages[i] : i \in 1..Len(index.passages)}

\* C9: after any sequence of adds the index stores as many vectors as passages, and an
\* add given different numbers of passages and vectors raises and changes neither store.
Theorem_C9 ==
    [][/\ Len(index'.vectors) = Len(index'.passages)
       /\ (last'.op = "add" /\ last'.nv # last'.np)
             => (last'.error = "ValueError" /\ index' = index)
       /\ (last'.op = "add" /\ last'.error # "none") => index' = index]_vars

Witness_C9 ==
    /\ last.op = "add"
    /\ last.nv # last.np
    /\ last.error = "ValueError"
    /\ Len(index.passages) = 2

\* C10: a search returns passages by non-increasing inner-product score, each one a
\* passage the index stores (with the score of its vector against the query), at most
\* topK of them and at most the index size.
Theorem_C10 ==
    last.op = "search"
        => /\ \A i \in 1..(Len(results) - 1) : results[i].score >= results[i + 1].score
           /\ \A i \in 1..Len(results) :
                 /\ results[i].text \in Stored
                 /\ \E j \in 1..Len(index.passages) :
                       /\ index.passages[j] = results[i].text
                       /\ Dot(index.vectors[j], last.q) = results[i].score
           /\ Len(results) <= last.k
           /\ Len(results) <= Len(index.passages)

Witness_C10 ==
    /\ last.op = "search"
    /\ Len(index.passages) = 2
    /\ last.k = 3
    /\ Len(results) = 2
    /\ results[1].score > results[2].score

(***************************************************************************)
(* The session specification: script runs of one browser session.         *)
(***************************************************************************)
InitApp == RouterIdle /\ IndexIdle /\ ToolsIdle /\ AppIdle

NextApp == Rerun

SpecApp == InitApp /\ [][NextApp]_vars

\* the last run answered a question
Served == run.asked # None

\* index, passages and finance were all assigned by one rebuild, which ran to its end
\* over the document whose hash is pdf_hash
OneCompletedRebuild ==
    /\ origin.index > 0
    /\ origin.passages = origin.index
    /\ origin.finance = origin.index
    /\ rebuilds[origin.index].completed
    /\ session_state.pdf_hash = Some(md5(rebuilds[origin.index].doc))

\* C7: whenever a query is served, the session's index, passage list and
\* FinanceParseResult were all produced by one completed run of the pipeline over the
\* document whose content hash equals the stored pdf_hash.
Claim_C7 == Served => OneCompletedRebuild

\* C8: every turn of the chat was appended while the document whose hash is pdf_hash
\* was the active one, and a run with an unchanged document keeps the turns it found, in
\* their order.
Claim_C8 ==
    [][/\ \A i \in 1..Len(session_state'.chat) : chat_hash'[i] = session_state'.pdf_hash
       /\ (run'.uploaded # None /\ Some(md5(run'.uploaded[1])) = session_state.pdf_hash)
             => Take(session_state'.chat, Len(session_state.chat)) = session_state.chat]_vars

(***************************************************************************)
(* The chunk_text specification: one call on any of the arguments.  The   *)
(* interpreter runs the statements of a call one after the other, which   *)
(* is the weak fairness of SpecChunkFair.                                  *)
(***************************************************************************)
InitChunk ==
    /\ RouterIdle /\ IndexIdle /\ AppIdle /\ RequestIdle /\ FinanceIdle
    /\ ck_pc = "call"
    /\ ck_in \in ChunkArgs
    /\ ck_text = ""
    /\ ck_start = 0
    /\ ck_chunks = <<>>
    /\ ck_error = ""

NextChunk ==
    /\ ChunkCall \/ ChunkTest \/ ChunkBody
    /\ UNCHANGED <<routerVars, indexVars, appVars, requestVars, financeVars>>

SpecChunk == InitChunk /\ [][NextChunk]_vars

SpecChunkFair == SpecChunk /\ WF_vars(NextChunk)

\* the text holds nothing but whitespace
Blank(text) == \A i \in 1..Len(text) : IsSpace(Char(text, i))

\* C11: a call with chunk_size <= 0 or overlap < 0 raises, whatever the text, and
\* produces no chunk; a call with valid parameters on an empty or whitespace-only text
\* returns the empty list.
Theorem_C11 ==
    ck_pc # "call"
        => /\ (ck_in.chunk_size <= 0 \/ ck_in.overlap < 0)
                => (ck_pc = "raised" /\ ck_error # "" /\ ck_chunks = <<>>)
           /\ (ck_in.chunk_size > 0 /\ ck_in.overlap >= 0)
                => /\ ck_pc # "raised"
                   /\ Blank(ck_in.text) => (ck_pc = "returned" /\ ck_chunks = <<>>)

Witness_C11 ==
    /\ ck_pc = "raised"
    /\ ck_in.text = " \n "
    /\ ck_in.chunk_size = 2
    /\ ck_in.overlap = -1

\* C18: every call whose parameters are accepted returns.
Claim_C18 ==
    (ck_pc = "call" /\ ck_in.chunk_size > 0 /\ ck_in.overlap >= 0) ~> (ck_pc = "returned")

(***************************************************************************)
(* The parse_finance_request specification: one call on any of the texts. *)
(***************************************************************************)
InitRequest ==
    /\ RouterIdle /\ IndexIdle /\ AppIdle /\ ChunkIdle /\ FinanceIdle
    /\ req_pc = "call"
    /\ user_text \in UserTexts
    /\ intent = [chart |-> "none", group |-> "auto"]

NextRequest ==
    /\ ParseRequest
    /\ UNCHANGED <<routerVars, indexVars, appVars, chunkVars, financeVars>>

SpecRequest == InitRequest /\ [][NextRequest]_vars

\* the chart the claim's rule gives for a text t
ClaimedChart(t) ==
    IF Contains(t, "bar") THEN "bar"
    ELSE IF Contains(t, "pie") THEN "pie"
    ELSE IF \E k \in {"line chart", "trend", "over time", "time series", "timeline", "line"} :
                Contains(t, k)
         THEN "line"
    ELSE "none"

\* the group the claim's rule gives for a text t
ClaimedGroup(t) ==
    IF \E k \in {"category", "merchant", "type"} : Contains(t, k) THEN "category"
    ELSE IF Contains(t, "hour") THEN "hour"
    ELSE IF Contains(t, "day") THEN "day"
    ELSE IF Contains(t, "month") THEN "month"
    ELSE "auto"

\* the group rule with both spellings of the day keyword
GroupRule(t) ==
    IF \E k \in {"category", "merchant", "type"} : Contains(t, k) THEN "category"
    ELSE IF Contains(t, "hour") THEN "hour"
    ELSE IF Contains(t, "day") \/ Contains(t, "daily") THEN "day"
    ELSE IF Contains(t, "month") THEN "month"
    ELSE "auto"

\* C15 as stated: chart and group are decided by ordered case-insensitive substring
\* checks on the text of the request (bar, then pie, then the line keywords, else none;
\* category/merchant/type, then hour, day, month, else auto), each from its own keywords.
Original_C15 ==
    req_pc = "done"
        => /\ intent.chart = ClaimedChart(lower(user_text))
           /\ intent.group = ClaimedGroup(lower(user_text))

\* C15 as the code has it: the same ordered checks, made on the text after it is
\* trimmed, lowercased and every run of whitespace is replaced by one blank, with
\* 'daily' as well as 'day' selecting the day group.
Theorem_C15 ==
    req_pc = "done"
        => /\ intent.chart = ClaimedChart(join(" ", split(lower(strip(user_text)))))
           /\ intent.group = GroupRule(join(" ", split(lower(strip(user_text)))))

Witness_C15 ==
    /\ req_pc = "done"
    /\ user_text = "Time\nSeries by\tmerchant"
    /\ intent = [chart |-> "line", group |-> "category"]

(***************************************************************************)
(* The finance specification: one call of parse_financial_tables on any   *)
(* list of grids, then one call of aggregate_finance on its result.       *)
(***************************************************************************)
InitFinance ==
    /\ RouterIdle /\ IndexIdle /\ AppIdle /\ ChunkIdle /\ RequestIdle
    /\ fin_pc = "call"
    /\ tables \in TableLists
    /\ parsed = None
    /\ log = <<>>
    /\ freq = ""
    /\ agg = <<>>

NextFinance ==
    /\ Parse \/ Aggregate
    /\ UNCHANGED <<routerVars, indexVars, appVars, chunkVars, requestVars>>

SpecFinance == InitFinance /\ [][NextFinance]_vars

\* the iterations of the loop that ended with a candidate
Survivors == {i \in 1..Len(log) : log[i].step = "candidate"}

ValidRows(i) == Len(log[i].records)

\* C12: the result is the surviving candidate with the greatest number of validated
\* rows, the first of them in input order when several have that number, and there
\* is no result exactly when no grid survives.
Theorem_C12 ==
    fin_pc # "call"
        => IF Survivors = {} THEN parsed = None
           ELSE \E i \in Survivors :
                   /\ parsed = Some(FinanceParseResult(log[i]))
                   /\ \A j \in Survivors :
                         /\ ValidRows(j) <= ValidRows(i)
                         /\ j < i => ValidRows(j) < ValidRows(i)

Witness_C12 ==
    /\ fin_pc = "parsed"
    /\ Survivors = {1, 2}
    /\ ValidRows(1) = ValidRows(2)
    /\ log[1] # log[2]
    /\ parsed = Some(FinanceParseResult(log[1]))

RowPeriods ==
    {Period(parsed[1].df.records[r].when[1], freq) : r \in 1..Len(parsed[1].df.records)}

\* C14: the aggregate holds a bucket for a period exactly when a row falls in it, the
\* total of a bucket is the sum of the amounts of its rows, and the buckets ascend.
Claim_C14 ==
    fin_pc = "aggregated"
        => /\ \A k \in 1..Len(agg) : agg[k].period \in RowPeriods
           /\ \A p \in RowPeriods : \E k \in 1..Len(agg) : agg[k].period = p
           /\ \A k \in 1..Len(agg) :
                 agg[k].total_amount = SumAmounts(parsed[1].df.records, freq, agg[k].period, 1)
           /\ \A k \in 1..(Len(agg) - 1) : agg[k].period < agg[k + 1].period

\* the iterations of the loop that ran the detectors
Detected == {i \in 1..Len(log) : log[i].step \in {"roles", "valid", "candidate"}}

\* the column names of the grids and the hints of the three roles
HeaderNames ==
    UNION {{HeaderOf(t[1])[i] : i \in 1..Len(t[1])} : t \in {g \in GridPool : Len(g) > 0}}

AllHints ==
    {_DATE_HINTS[i] : i \in 1..Len(_DATE_HINTS)}
        \cup {_AMOUNT_HINTS[i] : i \in 1..Len(_AMOUNT_HINTS)}
        \cup {_CATEGORY_HINTS[i] : i \in 1..Len(_CATEGORY_HINTS)}

\* whether the hint is inside the normalized (whitespace-collapsed, lowercased) name
HintInName ==
    [nh \in {x : x \in HeaderNames \X AllHints} |->
        Contains(join(" ", split(lower(strip(nh[1])))), nh[2])]

\* the pairs (hint number, column number) with the hint inside the normalized name
HintMatches(cols, hints) ==
    {hc \in (1..Len(hints)) \X (1..Len(cols)) : HintInName[<<cols[hc[2]], hints[hc[1]]>>]}

\* the name-hint rule of the claim applied to the outcome of one detector
HintRule(role, cols, hints) ==
    IF HintMatches(cols, hints) = {} THEN role.by # "hint"
    ELSE /\ role.by = "hint"
         /\ \E hc \in HintMatches(cols, hints) :
               /\ role.col = Some(cols[hc[2]])
               /\ \A other \in HintMatches(cols, hints) :
                     \/ other[1] > hc[1]
                     \/ other[1] = hc[1] /\ other[2] >= hc[2]

\* C16: in each detector the first hint, in priority order, that is inside any
\* normalized column name decides, and the column returned is the first one in column
\* order that holds that hint; the scoring pass runs only when no hint is in any name.
Theorem_C16 ==
    fin_pc # "call"
        => \A i \in Detected :
              /\ HintRule(log[i].datetime, HeaderOf(tables[i][1]), _DATE_HINTS)
              /\ HintRule(log[i].amount, HeaderOf(tables[i][1]), _AMOUNT_HINTS)
              /\ i \in Survivors
                    => HintRule(log[i].category,
                                SelectSeq(HeaderOf(tables[i][1]),
                                          LAMBDA c : /\ Some(c) # log[i].datetime.col
                                                     /\ Some(c) # log[i].amount.col),
                                _CATEGORY_HINTS)

Witness_C16 ==
    /\ fin_pc = "parsed"
    /\ Len(log) = 2
    /\ log[1].step = "candidate"
    /\ HeaderOf(tables[1][1]) = <<"Time", "Date", "Total">>
    /\ log[1].datetime = [col |-> Some("Date"), by |-> "hint"]
    /\ log[2].step = "candidate"
    /\ log[2].datetime.by = "score"
    /\ log[2].amount.by = "score"

\* the columns of candidate i that are left for the category role
Left(i) ==
    SelectSeq(log[i].columns,
              LAMBDA c : Some(c) # log[i].datetime.col /\ Some(c) # log[i].amount.col)

\* the cells of column number c of Left(i) that are not null, over the validated rows
Values(i, c) ==
    {log[i].records[r].cells[ColumnIndex(log[i].columns, Left(i)[c])][1] :
        r \in {q \in 1..Len(log[i].records) :
                 log[i].records[q].cells[ColumnIndex(log[i].columns, Left(i)[c])] # None}}

Filled(i, c) ==
    Cardinality({q \in 1..Len(log[i].records) :
                    log[i].records[q].cells[ColumnIndex(log[i].columns, Left(i)[c])] # None})

\* five times the distance of the distinct-value ratio of a column from 0.20, times
\* the number of its values
Distance(i, c) == Abs(5 * Cardinality(Values(i, c)) - Filled(i, c))

Theorem_C19 ==
    fin_pc # "call"
        => /\ \A i \in Survivors :
                 /\ log[i].datetime.col # log[i].amount.col
                 /\ log[i].category.col # None
                       => /\ log[i].category.col # log[i].datetime.col
                          /\ log[i].category.col # log[i].amount.col
           /\ parsed # None
                 => /\ parsed[1].datetime_col # parsed[1].amount_col
                    /\ parsed[1].category_col # Some(parsed[1].datetime_col)
                    /\ parsed[1].category_col # Some(parsed[1].amount_col)

Witness_C19 ==
    /\ fin_pc = "parsed"
    /\ Len(log) = 2
    /\ log[1].step = "valid"
    /\ log[1].datetime.col = Some("Payment Date")
    /\ log[1].amount.col = Some("Payment Date")
    /\ parsed # None
    /\ parsed[1].datetime_col = "Payment Date"
    /\ parsed[1].amount_col = "Amount"
    /\ parsed[1].category_col = Some("Type")

====
